---------------------------- MODULE Spec2Model ----------------------------
(***************************************************************************)
(* A model of woogeen_base::VideoFramePacketizer                           *)
(* (source/core/woogeen_base/VideoFramePacketizer.cpp).                    *)
(*                                                                         *)
(* Spec      every public operation of one packetizer instance as one      *)
(*           atomic step (one caller thread).                              *)
(* ScanSpec  the NAL scan loop of onFrame applied to Annex-B buffers.      *)
(* BindSpec  the binding operations over every sink, atomic.               *)
(* ConcSpec  the encoder, network and owner threads running concurrently,  *)
(*           the destructor among them, one step per lock operation.       *)
(***************************************************************************)
EXTENDS Integers, Sequences, FiniteSets, TLC

(***************************************************************************)
(* Bounds of the model.                                                    *)
(***************************************************************************)
\* how many SendOutgoingData calls a run makes, at most
MaxCount == 2
\* how many NAL units an Annex-B buffer of ScanSpec is made of, at most
MaxUnits == 3

(***************************************************************************)
(* Program constants.                                                      *)
(***************************************************************************)
TRANSMISSION_MAXBITRATE_MULTIPLIER == 2

\* FrameFormat values the packetizer distinguishes
SupportedFormats == {"VP8", "VP9", "H264", "H265"}
Formats == SupportedFormats \cup {"I420", "UNKNOWN"}

\* the payload-type constant setSendCodec / onFrame use for a format
PayloadType(format) == format \o "_90000_PT"

\* the RTP video codec onFrame puts into the RTPVideoHeader
RtpVideoCodec(format) ==
    CASE format = "VP8"  -> "kRtpVideoVp8"
      [] format = "VP9"  -> "kRtpVideoVp9"
      [] format = "H264" -> "kRtpVideoH264"
      [] OTHER           -> "kRtpVideoH265"

\* the codec descriptor setSendCodec fills in for a supported format
CodecOf(format) ==
    [codecType |-> "kVideoCodec" \o format, plName |-> format,
     plType |-> PayloadType(format)]

(***************************************************************************)
(* Inputs.                                                                 *)
(***************************************************************************)
\* (width, height) of a frame: one change of width alone, one of height alone
Resolutions == {<<320, 240>>, <<640, 240>>, <<640, 480>>}
Widths == {r[1] : r \in Resolutions}
Heights == {r[2] : r \in Resolutions}
TimeStamps == {45, 180}

\* bytes: 0 and 1 make start codes, 103 (0x67) and 65 (0x41) stand for the
\* other byte values
WellFormedPayload == <<0, 0, 0, 1, 103, 0, 0, 1, 65>>
MalformedPayload == <<103, 65, 0>>
OpaquePayload == <<103, 65>>

PayloadsOf(format) ==
    IF format \in {"H264", "H265"}
    THEN {WellFormedPayload, MalformedPayload}
    ELSE {OpaquePayload}

FrameFormats == SupportedFormats \cup {"I420"}

Frames ==
    UNION {
        [format : {f}, isKeyFrame : BOOLEAN, width : {r[1]}, height : {r[2]},
         payload : PayloadsOf(f), timeStamp : TimeStamps] :
        <<f, r>> \in FrameFormats \X Resolutions }

\* frame.length
FrameLength(frame) == Len(frame.payload)

\* sinks 1 and 2 expose a feedback source, sink 3 has none
Sinks == {"sinkA", "sinkB", "sinkC"}
SinksWithFeedbackSource == {"sinkA", "sinkB"}
NoSink == "nullptr"

RtcpLens == {8}

(***************************************************************************)
(* The NAL scanner findNALU (MediaUtilities.h, not part of the sources):   *)
(* modelled from the specification, section 4.2.  buf is the buffer seen   *)
(* by one call (1-based sequence), positions are 0-based as in the code.   *)
(***************************************************************************)
IsStartCode3(buf, i) ==
    /\ i + 3 <= Len(buf)
    /\ buf[i + 1] = 0 /\ buf[i + 2] = 0 /\ buf[i + 3] = 1

IsStartCode4(buf, i) ==
    /\ i + 4 <= Len(buf)
    /\ buf[i + 1] = 0 /\ buf[i + 2] = 0 /\ buf[i + 3] = 0 /\ buf[i + 4] = 1

MinOf(S) == CHOOSE x \in S : \A y \in S : x <= y

\* returns the length found (-1 on error) with *nal_start and *nal_end
findNALU(buf, size) ==
    LET starts == {i \in 0..(size - 1) : IsStartCode3(buf, i)}
    IN  IF starts = {}
        THEN [ret |-> -1, nal_start |-> 0, nal_end |-> 0]
        ELSE LET s == MinOf(starts) + 3
                 ends == {j \in s..(size - 1) :
                              IsStartCode3(buf, j) \/ IsStartCode4(buf, j)}
                 e == IF ends = {} THEN size ELSE MinOf(ends)
             IN  [ret |-> e - s, nal_start |-> s, nal_end |-> e]

(***************************************************************************)
(* The bitrate estimator calcBitrate (MediaUtilities.h, not part of the    *)
(* sources), in kbps: a deterministic map of the resolution.  The unit     *)
(* under study only relies on its being a function of (width, height).     *)
(***************************************************************************)
calcBitrate(width, height) == (width * height) \div 500

(***************************************************************************)
(* State.                                                                  *)
(***************************************************************************)
VARIABLES
    aborted,            \* an assert() has terminated the process
    m_enabled,
    m_keyFrameArrived,
    m_frameFormat,
    m_frameWidth,
    m_frameHeight,
    videoSink_,         \* the bound sink, or NoSink
    feedbackSinkOf,     \* sinks whose feedback source points at this packetizer
    sendCalls,          \* SendOutgoingData calls made so far
    last,               \* the last operation: name, arguments, calls made, result
    scanBuf,            \* ScanSpec: the Annex-B buffer the frames carry
    scanUnits,          \* ScanSpec: the NAL units the buffer was made of
    pc,                 \* ConcSpec: where each thread is in its call
    cur,                \* ConcSpec: the arguments of each thread's call
    m_rtpRtcpMutex,     \* ConcSpec: the RTP-engine lock, its writer and readers
    m_transport_mutex,  \* ConcSpec: the sink-binding lock
    m_rtpRtcp,          \* ConcSpec: the RTP engine handle, "alive" or "destroyed"
    usedAfterTeardown   \* ConcSpec: threads that called the engine once destroyed

coreVars == <<aborted, m_enabled, m_keyFrameArrived, m_frameFormat,
              m_frameWidth, m_frameHeight, videoSink_, feedbackSinkOf,
              sendCalls, last>>
scanVars == <<scanBuf, scanUnits>>
concVars == <<pc, cur, m_rtpRtcpMutex, m_transport_mutex, m_rtpRtcp,
              usedAfterTeardown>>
vars == <<coreVars, scanVars, concVars>>


(***************************************************************************)
(* Calls the packetizer makes on its collaborators.                        *)
(***************************************************************************)
KeyFrameRequest ==
    [fn |-> "deliverFeedbackMsg", type |-> "VIDEO_FEEDBACK",
     cmd |-> "REQUEST_KEY_FRAME"]

NoFragmentation == [present |-> FALSE, vec |-> <<>>]

CallsNamed(calls, name) == SelectSeq(calls, LAMBDA c : c.fn = name)
CountCalls(calls, name) == Len(CallsNamed(calls, name))

(***************************************************************************)
(* setSendCodec: the bitrate policy and the payload registration.          *)
(***************************************************************************)
\* targetKbps = calcBitrate(width, height) * (VP8 ? 0.9 : 1), truncated
TargetKbps(frameFormat, width, height) ==
    IF frameFormat = "VP8"
    THEN (calcBitrate(width, height) * 9) \div 10
    ELSE calcBitrate(width, height)

MinKbps_half(targetKbps) == targetKbps \div 2
\* minKbps = targetKbps / 4
MinKbps(targetKbps) == targetKbps \div 4

\* the bitrate controller is accepting "bps"
BitrateCalls(targetKbps) ==
    << [fn |-> "SetStartBitrate", bps |-> targetKbps * 1000],
       [fn |-> "SetMinMaxBitrate", min |-> MinKbps(targetKbps) * 1000,
        max |-> TRANSMISSION_MAXBITRATE_MULTIPLIER * targetKbps * 1000] >>

\* what a call of setSendCodec that got past its assert does: the calls it
\* makes on the bitrate controller and the RTP engine, and its result
SendCodecEffect(frameFormat, width, height, regOk) ==
    IF frameFormat \notin SupportedFormats
    THEN [ret |-> "false", calls |-> <<>>]
    ELSE [ret |-> IF regOk THEN "true" ELSE "false",
          calls |-> BitrateCalls(TargetKbps(frameFormat, width, height))
                    \o << [fn |-> "RegisterSendPayload",
                           codec |-> CodecOf(frameFormat), ok |-> regOk] >>]

(***************************************************************************)
(* onFrame: the key-frame gate, the NAL scan and the dispatch.             *)
(***************************************************************************)
FrameIgnored_never(enabled) == FALSE
\* if (!m_enabled) return;
FrameIgnored(enabled) == ~enabled

FrameGated_never(arrived, frame) == FALSE
\* the frame is dropped with a key-frame request
FrameGated(arrived, frame) == ~arrived /\ ~frame.isKeyFrame

KeyFrameLatch_perFrame(arrived, frame) == frame.isKeyFrame
\* m_keyFrameArrived after a frame got past the gate
KeyFrameLatch(arrived, frame) == arrived \/ frame.isKeyFrame

CodecChanged_formatOnly(frame) == frame.format # m_frameFormat
\* the frame differs from the cached format or resolution
CodecChanged(frame) ==
    \/ frame.format # m_frameFormat
    \/ frame.width # m_frameWidth
    \/ frame.height # m_frameHeight

GateCalls_silent == <<>>
\* what onFrame does with a frame the gate drops
GateCalls == << KeyFrameRequest >>

FragmentOffset_relative(nalu_start_offset, consumed) == nalu_start_offset
\* fragmentationOffset[last]; consumed is buffer_start - frame.payload
FragmentOffset(nalu_start_offset, consumed) == nalu_start_offset + consumed

\* the while loop over the payload; consumed is buffer_start - frame.payload
RECURSIVE ScanLoop(_, _, _)
ScanLoop(payload, consumed, frag) ==
    LET buffer_length == Len(payload) - consumed
    IN  IF buffer_length > 0
        THEN LET r == findNALU(SubSeq(payload, consumed + 1, Len(payload)),
                               buffer_length)
             IN  IF r.ret < 0
                 THEN [vec |-> frag, failed |-> TRUE]
                 ELSE ScanLoop(payload, consumed + r.nal_start + r.ret,
                               Append(frag,
                                      [offset |-> FragmentOffset(r.nal_start, consumed),
                                       length |-> r.ret]))
        ELSE [vec |-> frag, failed |-> FALSE]

NALScan(payload) == ScanLoop(payload, 0, <<>>)

CaptureTime_unscaled(timeStamp) == timeStamp
\* frame.timeStamp / 90, the capture time argument of SendOutgoingData
CaptureTime(timeStamp) == timeStamp \div 90

\* the SendOutgoingData call of a frame that got past the gate, if any;
\* arrived is m_keyFrameArrived at the time of the call
SendCalls(frame, arrived) ==
    LET send(frag) ==
            [fn |-> "SendOutgoingData", frameType |-> "kVideoFrameKey",
             plType |-> PayloadType(frame.format),
             timeStamp |-> frame.timeStamp,
             captureTime |-> CaptureTime(frame.timeStamp),
             payload |-> frame.payload, length |-> FrameLength(frame),
             frag |-> frag, codec |-> RtpVideoCodec(frame.format),
             isKeyFrame |-> frame.isKeyFrame,
             keyFrameArrived |-> arrived]
    IN  IF frame.format \in {"VP8", "VP9"}
        THEN << send(NoFragmentation) >>
        ELSE IF frame.format \in {"H264", "H265"}
        THEN << send([present |-> TRUE, vec |-> NALScan(frame.payload).vec]) >>
        ELSE <<>>


(***************************************************************************)
(* Construction: the constructor's initializers and init().                *)
(***************************************************************************)
Op(name, args, calls, ret) ==
    [op |-> name, args |-> args, calls |-> calls, ret |-> ret]

InitCore ==
    /\ aborted = FALSE
    /\ m_enabled = TRUE
    /\ m_keyFrameArrived = FALSE
    /\ m_frameFormat = "UNKNOWN"
    /\ m_frameWidth = 0
    /\ m_frameHeight = 0
    /\ videoSink_ = NoSink
    /\ feedbackSinkOf = {}
    /\ sendCalls = 0
    /\ last = Op("init", [none |-> TRUE], <<>>, "void")

InitScanIdle ==
    /\ scanBuf = <<>>
    /\ scanUnits = <<>>

\* the threads of section 5: the encoder thread delivers frames, the network
\* thread delivers inbound RTCP and RTP, the owner binds, unbinds and destroys
Threads == {"encoder", "network", "owner"}
Unlocked == [writer |-> "none", readers |-> {}]

InitConc ==
    /\ pc = [t \in Threads |-> "idle"]
    /\ cur = [t \in Threads |-> [none |-> TRUE]]
    /\ m_rtpRtcpMutex = Unlocked
    /\ m_transport_mutex = Unlocked
    /\ m_rtpRtcp = "alive"
    /\ usedAfterTeardown = {}

Init == InitCore /\ InitScanIdle /\ InitConc

bindingVars == <<videoSink_, feedbackSinkOf>>
codecVars == <<m_frameFormat, m_frameWidth, m_frameHeight>>
counterVars == <<sendCalls>>

(***************************************************************************)
(* Sink binding.                                                           *)
(***************************************************************************)
BindTransportCalls_twice(sink) ==
    << [fn |-> "setVideoSinkSSRC", sink |-> sink, ssrc |-> "m_rtpRtcp->SSRC()"],
       [fn |-> "setVideoSinkSSRC", sink |-> sink, ssrc |-> "m_rtpRtcp->SSRC()"] >>
    \o (IF sink \in SinksWithFeedbackSource
        THEN << [fn |-> "setFeedbackSink", sink |-> sink, to |-> "this"] >>
        ELSE <<>>)
\* the calls bindTransport makes on the sink
BindTransportCalls(sink) ==
    << [fn |-> "setVideoSinkSSRC", sink |-> sink, ssrc |-> "m_rtpRtcp->SSRC()"] >>
    \o (IF sink \in SinksWithFeedbackSource
        THEN << [fn |-> "setFeedbackSink", sink |-> sink, to |-> "this"] >>
        ELSE <<>>)

BindTransport(sink) ==
    /\ ~aborted
    /\ videoSink_' = sink
    /\ feedbackSinkOf' = IF sink \in SinksWithFeedbackSource
                         THEN feedbackSinkOf \cup {sink}
                         ELSE feedbackSinkOf
    /\ last' = Op("bindTransport", [sink |-> sink, previous |-> videoSink_],
                  BindTransportCalls(sink), "void")
    /\ UNCHANGED <<aborted, m_enabled, m_keyFrameArrived, codecVars, counterVars,
                   scanVars, concVars>>

\* the body both unbindTransport and close run under the transport lock
UnbindCalls(sink) ==
    IF sink # NoSink /\ sink \in SinksWithFeedbackSource
    THEN << [fn |-> "setFeedbackSink", sink |-> sink, to |-> "nullptr"] >>
    ELSE <<>>

UnbindTransport ==
    /\ ~aborted
    /\ videoSink_' = NoSink
    /\ feedbackSinkOf' = IF videoSink_ # NoSink
                         THEN feedbackSinkOf \ {videoSink_}
                         ELSE feedbackSinkOf
    /\ last' = Op("unbindTransport", [sink |-> videoSink_],
                  UnbindCalls(videoSink_), "void")
    /\ UNCHANGED <<aborted, m_enabled, m_keyFrameArrived, codecVars, counterVars,
                   scanVars, concVars>>

Close ==
    /\ ~aborted
    /\ videoSink_' = NoSink
    /\ feedbackSinkOf' = IF videoSink_ # NoSink
                         THEN feedbackSinkOf \ {videoSink_}
                         ELSE feedbackSinkOf
    /\ last' = Op("close", [sink |-> videoSink_],
                  UnbindCalls(videoSink_) \o << [fn |-> "DeRegisterModule"] >>,
                  "void")
    /\ UNCHANGED <<aborted, m_enabled, m_keyFrameArrived, codecVars, counterVars, scanVars, concVars>>

(***************************************************************************)
(* Enablement and key-frame requests.                                      *)
(***************************************************************************)
EnableCalls_onToggle(enabled) ==
    IF enabled /\ ~m_enabled THEN << KeyFrameRequest >> ELSE <<>>
\* if (m_enabled) deliverFeedbackMsg(REQUEST_KEY_FRAME), after the assignment
EnableCalls(enabled) == IF enabled THEN << KeyFrameRequest >> ELSE <<>>

Enable(enabled) ==
    /\ ~aborted
    /\ m_enabled' = enabled
    /\ last' = Op("enable", [enabled |-> enabled], EnableCalls(enabled), "void")
    /\ UNCHANGED <<aborted, m_keyFrameArrived, codecVars, bindingVars, counterVars,
                   scanVars, concVars>>

OnReceivedIntraFrameRequest ==
    /\ ~aborted
    /\ last' = Op("OnReceivedIntraFrameRequest", [ssrc |-> "ssrc"],
                  << KeyFrameRequest >>, "void")
    /\ UNCHANGED <<aborted, m_enabled, m_keyFrameArrived, codecVars,
                   bindingVars, counterVars, scanVars, concVars>>

SendFirPacket ==
    /\ ~aborted
    /\ last' = Op("sendFirPacket", [none |-> TRUE], << KeyFrameRequest >>, 0)
    /\ UNCHANGED <<aborted, m_enabled, m_keyFrameArrived, codecVars,
                   bindingVars, counterVars, scanVars, concVars>>

\* IncomingRtcpPacket parses the packet (parseOk) and, when the packet holds
\* a full intra request (fir), calls back OnReceivedIntraFrameRequest
DeliverFeedback(len, parseOk, fir) ==
    /\ ~aborted
    /\ fir => parseOk
    /\ last' = Op("deliverFeedback", [len |-> len, parseOk |-> parseOk, fir |-> fir],
                  << [fn |-> "IncomingRtcpPacket", len |-> len] >>
                  \o (IF fir THEN << KeyFrameRequest >> ELSE <<>>),
                  IF parseOk THEN len ELSE 0)
    /\ UNCHANGED <<aborted, m_enabled, m_keyFrameArrived, codecVars,
                   bindingVars, counterVars, scanVars, concVars>>

\* type is erizo::VIDEO, the only type the operation is valid for
ReceiveRtpData(len) ==
    /\ ~aborted
    /\ last' = Op("receiveRtpData", [len |-> len, sink |-> videoSink_],
                  IF videoSink_ = NoSink
                  THEN <<>>
                  ELSE << [fn |-> "deliverVideoData", sink |-> videoSink_,
                           len |-> len] >>,
                  "void")
    /\ UNCHANGED <<aborted, m_enabled, m_keyFrameArrived, codecVars,
                   bindingVars, counterVars, scanVars, concVars>>

OnNetworkChanged_propagates(target_bitrate, fraction_loss, rtt) ==
    /\ ~aborted
    /\ last' = Op("OnNetworkChanged",
                  [target_bitrate |-> target_bitrate,
                   fraction_loss |-> fraction_loss, rtt |-> rtt],
                  << [fn |-> "deliverFeedbackMsg", type |-> "VIDEO_FEEDBACK",
                      cmd |-> "SET_BITRATE"] >>, "void")
    /\ UNCHANGED <<aborted, m_enabled, m_keyFrameArrived, codecVars,
                   bindingVars, counterVars, scanVars, concVars>>
\* the body is empty: the change is not delivered as feedback
OnNetworkChanged(target_bitrate, fraction_loss, rtt) ==
    /\ ~aborted
    /\ last' = Op("OnNetworkChanged",
                  [target_bitrate |-> target_bitrate,
                   fraction_loss |-> fraction_loss, rtt |-> rtt], <<>>, "void")
    /\ UNCHANGED <<aborted, m_enabled, m_keyFrameArrived, codecVars,
                   bindingVars, counterVars, scanVars, concVars>>


(***************************************************************************)
(* setSendCodec as a public operation.  regOk is the RTP engine's answer   *)
(* to RegisterSendPayload.  The assert on the format ends the process in a *)
(* build with assertions and is compiled out in one with NDEBUG: ndebug is *)
(* the build the call runs in.                                             *)
(***************************************************************************)
SetSendCodec(frameFormat, width, height, regOk, ndebug) ==
    LET args == [frameFormat |-> frameFormat, width |-> width, height |-> height,
                 regOk |-> regOk, cachedFormat |-> m_frameFormat]
        e == SendCodecEffect(frameFormat, width, height, regOk)
    IN  /\ ~aborted
        /\ regOk \/ frameFormat \in SupportedFormats
        /\ ndebug \/ frameFormat # m_frameFormat
        /\ IF frameFormat # m_frameFormat /\ ~ndebug
           THEN /\ aborted' = TRUE
                /\ last' = Op("setSendCodec", args, <<>>, "abort")
           ELSE /\ aborted' = aborted
                /\ last' = Op("setSendCodec", args, e.calls, e.ret)
        /\ UNCHANGED <<m_enabled, m_keyFrameArrived, codecVars,
                       bindingVars, counterVars, scanVars, concVars>>

AcceptedCalls_stopsOnRejection(changed, e, sends) ==
    IF changed /\ e.ret = "false" THEN e.calls ELSE
    (IF changed THEN e.calls ELSE <<>>) \o sends
\* the calls of a frame that got past the gate: setSendCodec on a change,
\* its result ignored, then the dispatch
AcceptedCalls(changed, e, sends) ==
    (IF changed THEN e.calls ELSE <<>>) \o sends

(***************************************************************************)
(* onFrame.  regOk is the RTP engine's answer to the payload registration  *)
(* a format or resolution change triggers.                                 *)
(***************************************************************************)
OnFrame(frame, regOk) ==
    LET args == [frame |-> frame, regOk |-> regOk, enabled |-> m_enabled,
                 keyFrameArrived |-> m_keyFrameArrived,
                 changed |-> CodecChanged(frame)]
        gated == FrameGated(m_keyFrameArrived, frame)
        arrived == KeyFrameLatch(m_keyFrameArrived, frame)
        changed == CodecChanged(frame)
        e == SendCodecEffect(frame.format, frame.width, frame.height, regOk)
        sends == SendCalls(frame, arrived)
    IN  /\ ~aborted
        \* the engine's answer is drawn only when the engine is asked
        /\ regOk \/ (m_enabled /\ ~gated /\ changed /\ frame.format \in SupportedFormats)
        /\ IF FrameIgnored(m_enabled)
           THEN /\ last' = Op("onFrame", args, <<>>, "void")
                /\ UNCHANGED <<m_keyFrameArrived, codecVars, sendCalls>>
           ELSE IF gated
           THEN /\ last' = Op("onFrame", args, GateCalls, "void")
                /\ UNCHANGED <<m_keyFrameArrived, codecVars, sendCalls>>
           ELSE /\ m_keyFrameArrived' = arrived
                /\ m_frameFormat' = frame.format
                /\ m_frameWidth' = frame.width
                /\ m_frameHeight' = frame.height
                /\ last' = Op("onFrame", args,
                              AcceptedCalls(changed, e, sends), "void")
                /\ sendCalls' = sendCalls
                      + CountCalls(AcceptedCalls(changed, e, sends),
                                   "SendOutgoingData")
                /\ sendCalls' <= MaxCount
        /\ UNCHANGED <<aborted, m_enabled, bindingVars, scanVars, concVars>>

(***************************************************************************)
(* One caller, every operation atomic.                                     *)
(***************************************************************************)
Next ==
    \/ \E frame \in Frames, regOk \in BOOLEAN : OnFrame(frame, regOk)
    \/ \E f \in Formats, r \in Resolutions, regOk \in BOOLEAN, ndebug \in BOOLEAN :
          SetSendCodec(f, r[1], r[2], regOk, ndebug)
    \/ \E enabled \in BOOLEAN : Enable(enabled)
    \/ \E sink \in {"sinkA"} : BindTransport(sink)
    \/ UnbindTransport
    \/ Close
    \/ SendFirPacket
    \/ OnReceivedIntraFrameRequest
    \/ \E len \in RtcpLens, parseOk \in BOOLEAN, fir \in BOOLEAN :
          DeliverFeedback(len, parseOk, fir)
    \/ \E len \in RtcpLens : ReceiveRtpData(len)
    \/ \E t \in {0, 300000} : OnNetworkChanged(t, 255 - t \div 2000, t \div 3000)

Spec == Init /\ [][Next]_vars


(***************************************************************************)
(* ScanSpec: H.264 / H.265 frames whose payload is an Annex-B buffer made  *)
(* of up to MaxUnits NAL units, each behind a 3- or 4-byte start code.  A  *)
(* NAL unit holds no start code (emulation prevention) and does not end in *)
(* a zero byte (it ends in its RBSP stop bit); it may be empty.            *)
(***************************************************************************)
StartCode(n) == IF n = 3 THEN <<0, 0, 1>> ELSE <<0, 0, 0, 1>>

UnitBodies == {<<>>, <<103>>, <<65, 0, 1>>}

Units == [sc : {3, 4}, body : UnitBodies]

RECURSIVE UnitLists(_)
UnitLists(n) ==
    IF n = 0 THEN {<<>>}
    ELSE LET shorter == UnitLists(n - 1)
         IN  shorter \cup {Append(l, u) : l \in {x \in shorter : Len(x) = n - 1},
                                          u \in Units}

RECURSIVE AnnexB(_)
AnnexB(units) ==
    IF units = <<>> THEN <<>>
    ELSE StartCode(Head(units).sc) \o Head(units).body \o AnnexB(Tail(units))

\* where unit k of the buffer lies: its offset past its start code, its length
RECURSIVE UnitOffset(_, _)
UnitOffset(units, k) ==
    IF k = 1 THEN units[1].sc
    ELSE UnitOffset(units, k - 1) + Len(units[k - 1].body) + units[k].sc

UnitExtents(units) ==
    [k \in 1..Len(units) |->
        [offset |-> UnitOffset(units, k), length |-> Len(units[k].body)]]

InitScan ==
    /\ InitCore
    /\ InitConc
    /\ scanUnits \in UnitLists(MaxUnits)
    /\ scanBuf = AnnexB(scanUnits)

ScanFrame(format, isKeyFrame, resolution) ==
    OnFrame([format |-> format, isKeyFrame |-> isKeyFrame,
             width |-> resolution[1], height |-> resolution[2],
             payload |-> scanBuf, timeStamp |-> 180], TRUE)

ScanNext ==
    \E format \in {"H264", "H265"}, isKeyFrame \in BOOLEAN,
       resolution \in {<<320, 240>>} :
        ScanFrame(format, isKeyFrame, resolution)

ScanSpec == InitScan /\ [][ScanNext]_vars

(***************************************************************************)
(* BindSpec: the lifecycle operations over every sink.                     *)
(***************************************************************************)
BindNext ==
    \/ \E sink \in Sinks : BindTransport(sink)
    \/ UnbindTransport
    \/ Close
    \/ \E len \in RtcpLens : ReceiveRtpData(len)
    \/ \E enabled \in BOOLEAN : Enable(enabled)

BindSpec == Init /\ [][BindNext]_vars


(***************************************************************************)
(* ConcSpec: the threads of section 5 running concurrently, one step per   *)
(* lock operation.  The encoder thread calls onFrame and setSendCodec, the *)
(* network thread deliverFeedback and receiveRtpData, the owner thread     *)
(* bindTransport, unbindTransport and, once, the destructor.  No call      *)
(* begins once the destructor has been entered.                            *)
(***************************************************************************)
CanLockShared(m) == m.writer = "none"
CanLockUnique(m) == m.writer = "none" /\ m.readers = {}
LockShared(m, t) == [m EXCEPT !.readers = @ \cup {t}]
UnlockShared(m, t) == [m EXCEPT !.readers = @ \ {t}]
LockUnique(m, t) == [m EXCEPT !.writer = t]
UnlockUnique(m) == [m EXCEPT !.writer = "none"]

DtorLabels == {"dtor_close", "dtor_deregister", "dtor_stop", "dtor_lock",
               "dtor_unlock", "dtor_members", "destroyed"}
DtorEntered == pc["owner"] \in DtorLabels

\* a call on *m_rtpRtcp by thread t
EngineCall(t) ==
    usedAfterTeardown' = IF m_rtpRtcp = "destroyed"
                         THEN usedAfterTeardown \cup {t}
                         ELSE usedAfterTeardown

ConcFrames ==
    {f \in Frames : /\ f.format \in {"VP8", "H264", "I420"}
                    /\ f.width = 320
                    /\ f.timeStamp = 180
                    /\ f.payload \in {OpaquePayload, WellFormedPayload}}

Goto(t, label) == pc' = [pc EXCEPT ![t] = label]

\* onFrame up to its first lock: the gate, the cache update and, on a
\* change, setSendCodec up to its lock
OnFrameBegin(frame) ==
    /\ pc["encoder"] = "idle"
    /\ ~DtorEntered
    /\ m_enabled
    /\ IF FrameGated(m_keyFrameArrived, frame)
       THEN UNCHANGED <<m_keyFrameArrived, codecVars, pc, cur>>
       ELSE /\ m_keyFrameArrived' = KeyFrameLatch(m_keyFrameArrived, frame)
            /\ m_frameFormat' = frame.format
            /\ m_frameWidth' = frame.width
            /\ m_frameHeight' = frame.height
            /\ cur' = [cur EXCEPT !["encoder"] = [frame |-> frame, nested |-> TRUE]]
            /\ Goto("encoder",
                    IF frame.format \notin SupportedFormats THEN "idle"
                    ELSE IF CodecChanged(frame) THEN "register_lock"
                    ELSE "send_lock")
    /\ UNCHANGED <<aborted, m_enabled, bindingVars, counterVars, last, scanVars,
                   m_rtpRtcpMutex, m_transport_mutex, m_rtpRtcp, usedAfterTeardown>>

\* setSendCodec, called with the cached format, up to its lock
SetSendCodecBegin ==
    /\ pc["encoder"] = "idle"
    /\ ~DtorEntered
    /\ m_frameFormat \in SupportedFormats
    /\ cur' = [cur EXCEPT !["encoder"] = [nested |-> FALSE]]
    /\ Goto("encoder", "register_lock")
    /\ UNCHANGED <<coreVars, scanVars, m_rtpRtcpMutex, m_transport_mutex,
                   m_rtpRtcp, usedAfterTeardown>>

\* boost::shared_lock<boost::shared_mutex> lock(m_rtpRtcpMutex)
RegisterLock ==
    /\ pc["encoder"] = "register_lock"
    /\ CanLockShared(m_rtpRtcpMutex)
    /\ m_rtpRtcpMutex' = LockShared(m_rtpRtcpMutex, "encoder")
    /\ Goto("encoder", "register")
    /\ UNCHANGED <<coreVars, scanVars, cur, m_transport_mutex, m_rtpRtcp,
                   usedAfterTeardown>>

\* return m_rtpRtcp && m_rtpRtcp->RegisterSendPayload(codec) != -1; the
\* handle of a destroyed engine reads as null or not (seesNull)
Register(seesNull) ==
    /\ pc["encoder"] = "register"
    /\ seesNull => m_rtpRtcp = "destroyed"
    /\ IF seesNull THEN UNCHANGED usedAfterTeardown ELSE EngineCall("encoder")
    /\ m_rtpRtcpMutex' = UnlockShared(m_rtpRtcpMutex, "encoder")
    /\ Goto("encoder", IF cur["encoder"].nested THEN "send_lock" ELSE "idle")
    /\ UNCHANGED <<coreVars, scanVars, cur, m_transport_mutex, m_rtpRtcp>>

SendLock ==
    /\ pc["encoder"] = "send_lock"
    /\ CanLockShared(m_rtpRtcpMutex)
    /\ m_rtpRtcpMutex' = LockShared(m_rtpRtcpMutex, "encoder")
    /\ Goto("encoder", "send")
    /\ UNCHANGED <<coreVars, scanVars, cur, m_transport_mutex, m_rtpRtcp,
                   usedAfterTeardown>>

\* m_rtpRtcp->SendOutgoingData(...), then the lock goes out of scope
Send ==
    /\ pc["encoder"] = "send"
    /\ EngineCall("encoder")
    /\ m_rtpRtcpMutex' = UnlockShared(m_rtpRtcpMutex, "encoder")
    /\ Goto("encoder", "idle")
    /\ UNCHANGED <<coreVars, scanVars, cur, m_transport_mutex, m_rtpRtcp>>

DeliverFeedbackLock ==
    /\ pc["network"] = "idle"
    /\ ~DtorEntered
    /\ CanLockShared(m_rtpRtcpMutex)
    /\ m_rtpRtcpMutex' = LockShared(m_rtpRtcpMutex, "network")
    /\ Goto("network", "rtcp")
    /\ UNCHANGED <<coreVars, scanVars, cur, m_transport_mutex, m_rtpRtcp,
                   usedAfterTeardown>>

\* m_rtpRtcp->IncomingRtcpPacket(...)
DeliverFeedbackPacket ==
    /\ pc["network"] = "rtcp"
    /\ EngineCall("network")
    /\ m_rtpRtcpMutex' = UnlockShared(m_rtpRtcpMutex, "network")
    /\ Goto("network", "idle")
    /\ UNCHANGED <<coreVars, scanVars, cur, m_transport_mutex, m_rtpRtcp>>

ReceiveRtpDataLock_noLock ==
    /\ pc["network"] = "idle"
    /\ ~DtorEntered
    /\ Goto("network", "check_sink")
    /\ UNCHANGED <<coreVars, scanVars, cur, m_rtpRtcpMutex, m_transport_mutex,
                   m_rtpRtcp, usedAfterTeardown>>
\* boost::shared_lock<boost::shared_mutex> lock(m_transport_mutex)
ReceiveRtpDataLock ==
    /\ pc["network"] = "idle"
    /\ ~DtorEntered
    /\ CanLockShared(m_transport_mutex)
    /\ m_transport_mutex' = LockShared(m_transport_mutex, "network")
    /\ Goto("network", "check_sink")
    /\ UNCHANGED <<coreVars, scanVars, cur, m_rtpRtcpMutex, m_rtpRtcp,
                   usedAfterTeardown>>

\* if (!videoSink_) return;
ReceiveRtpDataCheck ==
    /\ pc["network"] = "check_sink"
    /\ IF videoSink_ = NoSink
       THEN /\ cur' = [cur EXCEPT !["network"] =
                          [checked |-> NoSink, deliveredTo |-> NoSink,
                           deliveries |-> 0]]
            /\ m_transport_mutex' = UnlockShared(m_transport_mutex, "network")
            /\ Goto("network", "idle")
       ELSE /\ cur' = [cur EXCEPT !["network"] = [checked |-> videoSink_]]
            /\ UNCHANGED m_transport_mutex
            /\ Goto("network", "deliver")
    /\ UNCHANGED <<coreVars, scanVars, m_rtpRtcpMutex, m_rtpRtcp,
                   usedAfterTeardown>>

\* videoSink_->deliverVideoData(buf, len), then the lock goes out of scope
ReceiveRtpDataDeliver ==
    /\ pc["network"] = "deliver"
    /\ cur' = [cur EXCEPT !["network"] =
                  [checked |-> cur["network"].checked,
                   deliveredTo |-> videoSink_, deliveries |-> 1]]
    /\ m_transport_mutex' = UnlockShared(m_transport_mutex, "network")
    /\ Goto("network", "idle")
    /\ UNCHANGED <<coreVars, scanVars, m_rtpRtcpMutex, m_rtpRtcp,
                   usedAfterTeardown>>

BindTransportLock(sink) ==
    /\ pc["owner"] = "idle"
    /\ CanLockUnique(m_transport_mutex)
    /\ m_transport_mutex' = LockUnique(m_transport_mutex, "owner")
    /\ cur' = [cur EXCEPT !["owner"] = [sink |-> sink]]
    /\ Goto("owner", "bind")
    /\ UNCHANGED <<coreVars, scanVars, m_rtpRtcpMutex, m_rtpRtcp,
                   usedAfterTeardown>>

BindTransportBody ==
    /\ pc["owner"] = "bind"
    /\ videoSink_' = cur["owner"].sink
    /\ feedbackSinkOf' = IF cur["owner"].sink \in SinksWithFeedbackSource
                         THEN feedbackSinkOf \cup {cur["owner"].sink}
                         ELSE feedbackSinkOf
    /\ EngineCall("owner")
    /\ m_transport_mutex' = UnlockUnique(m_transport_mutex)
    /\ Goto("owner", "idle")
    /\ UNCHANGED <<aborted, m_enabled, m_keyFrameArrived, codecVars, counterVars,
                   last, scanVars, cur, m_rtpRtcpMutex, m_rtpRtcp>>

UnbindTransportLock ==
    /\ pc["owner"] = "idle"
    /\ CanLockUnique(m_transport_mutex)
    /\ m_transport_mutex' = LockUnique(m_transport_mutex, "owner")
    /\ Goto("owner", "unbind")
    /\ UNCHANGED <<coreVars, scanVars, cur, m_rtpRtcpMutex, m_rtpRtcp,
                   usedAfterTeardown>>

UnbindBody_keepsLock(next) ==
    /\ videoSink_' = NoSink
    /\ feedbackSinkOf' = IF videoSink_ # NoSink
                         THEN feedbackSinkOf \ {videoSink_}
                         ELSE feedbackSinkOf
    /\ Goto("owner", next)
    /\ UNCHANGED <<aborted, m_enabled, m_keyFrameArrived, codecVars, counterVars,
                   last, scanVars, cur, m_rtpRtcpMutex, m_transport_mutex,
                   m_rtpRtcp, usedAfterTeardown>>
\* the body unbindTransport and close share, then the unlock
UnbindBody(next) ==
    /\ videoSink_' = NoSink
    /\ feedbackSinkOf' = IF videoSink_ # NoSink
                         THEN feedbackSinkOf \ {videoSink_}
                         ELSE feedbackSinkOf
    /\ m_transport_mutex' = UnlockUnique(m_transport_mutex)
    /\ Goto("owner", next)
    /\ UNCHANGED <<aborted, m_enabled, m_keyFrameArrived, codecVars, counterVars,
                   last, scanVars, cur, m_rtpRtcpMutex, m_rtpRtcp,
                   usedAfterTeardown>>

UnbindTransportBody ==
    /\ pc["owner"] = "unbind"
    /\ UnbindBody("idle")

\* ~VideoFramePacketizer: close() takes the transport lock
DtorCloseLock ==
    /\ pc["owner"] = "idle"
    /\ CanLockUnique(m_transport_mutex)
    /\ m_transport_mutex' = LockUnique(m_transport_mutex, "owner")
    /\ Goto("owner", "dtor_close")
    /\ UNCHANGED <<coreVars, scanVars, cur, m_rtpRtcpMutex, m_rtpRtcp,
                   usedAfterTeardown>>

DtorCloseBody ==
    /\ pc["owner"] = "dtor_close"
    /\ UnbindBody("dtor_deregister")

\* m_taskRunner->DeRegisterModule(m_rtpRtcp.get()), the end of close()
DtorDeregister ==
    /\ pc["owner"] = "dtor_deregister"
    /\ Goto("owner", "dtor_stop")
    /\ UNCHANGED <<coreVars, scanVars, cur, m_rtpRtcpMutex, m_transport_mutex,
                   m_rtpRtcp, usedAfterTeardown>>

\* m_taskRunner->Stop()
DtorStop ==
    /\ pc["owner"] = "dtor_stop"
    /\ Goto("owner", "dtor_lock")
    /\ UNCHANGED <<coreVars, scanVars, cur, m_rtpRtcpMutex, m_transport_mutex,
                   m_rtpRtcp, usedAfterTeardown>>

\* boost::unique_lock<boost::shared_mutex> lock(m_rtpRtcpMutex), the last
\* statement of the destructor's body
DtorLock ==
    /\ pc["owner"] = "dtor_lock"
    /\ CanLockUnique(m_rtpRtcpMutex)
    /\ m_rtpRtcpMutex' = LockUnique(m_rtpRtcpMutex, "owner")
    /\ Goto("owner", "dtor_unlock")
    /\ UNCHANGED <<coreVars, scanVars, cur, m_transport_mutex, m_rtpRtcp,
                   usedAfterTeardown>>

\* the body ends: the lock, a local of the body, is released
DtorUnlock ==
    /\ pc["owner"] = "dtor_unlock"
    /\ m_rtpRtcpMutex' = UnlockUnique(m_rtpRtcpMutex)
    /\ Goto("owner", "dtor_members")
    /\ UNCHANGED <<coreVars, scanVars, cur, m_transport_mutex, m_rtpRtcp,
                   usedAfterTeardown>>

\* after the body the members are destroyed, m_rtpRtcp among them
DtorMembers ==
    /\ pc["owner"] = "dtor_members"
    /\ m_rtpRtcp' = "destroyed"
    /\ Goto("owner", "destroyed")
    /\ UNCHANGED <<coreVars, scanVars, cur, m_rtpRtcpMutex, m_transport_mutex,
                   usedAfterTeardown>>

ConcNext ==
    \/ \E frame \in ConcFrames : OnFrameBegin(frame)
    \/ SetSendCodecBegin
    \/ RegisterLock
    \/ \E seesNull \in BOOLEAN : Register(seesNull)
    \/ SendLock
    \/ Send
    \/ DeliverFeedbackLock
    \/ DeliverFeedbackPacket
    \/ ReceiveRtpDataLock
    \/ ReceiveRtpDataCheck
    \/ ReceiveRtpDataDeliver
    \/ \E sink \in Sinks : BindTransportLock(sink)
    \/ BindTransportBody
    \/ UnbindTransportLock
    \/ UnbindTransportBody
    \/ DtorCloseLock
    \/ DtorCloseBody
    \/ DtorDeregister
    \/ DtorStop
    \/ DtorLock
    \/ DtorUnlock
    \/ DtorMembers

ConcSpec == Init /\ [][ConcNext]_vars

(***************************************************************************)
(* Properties.                                                             *)
(***************************************************************************)
Sends(calls) == CallsNamed(calls, "SendOutgoingData")
KeyFrameRequests(calls) ==
    SelectSeq(calls, LAMBDA c : c = KeyFrameRequest)
IsOnFrame == last.op = "onFrame"

\* C1: no SendOutgoingData call is ever made while m_keyFrameArrived is
\* false: every send the last operation made saw the flag set, and a run
\* that has made a send has the flag set.
C1_NoSendBeforeKeyFrame ==
    /\ \A i \in DOMAIN last.calls :
          last.calls[i].fn = "SendOutgoingData" =>
              last.calls[i].keyFrameArrived /\ m_keyFrameArrived
    /\ sendCalls > 0 => m_keyFrameArrived

\* the frame that latched the flag has just been sent
C1_Witness ==
    /\ IsOnFrame
    /\ ~last.args.keyFrameArrived
    /\ Len(Sends(last.calls)) = 1
    /\ sendCalls = 1

\* C2: the key-frame gate is irreversible.  No step resets
\* m_keyFrameArrived; the flag is set only by onFrame, for a key frame,
\* while enabled; and every key frame processed while enabled leaves it set.
C2_GateIrreversible ==
    [][ /\ m_keyFrameArrived => m_keyFrameArrived'
        /\ (~m_keyFrameArrived /\ m_keyFrameArrived') =>
              /\ last'.op = "onFrame"
              /\ last'.args.frame.isKeyFrame
              /\ m_enabled
        /\ (last'.op = "onFrame" /\ last'.args.enabled
              /\ last'.args.frame.isKeyFrame) => m_keyFrameArrived'
      ]_vars

\* the gate is open and a non-key frame of another format or resolution
\* has just been processed
C2_Witness ==
    /\ IsOnFrame
    /\ last.args.enabled
    /\ last.args.keyFrameArrived
    /\ ~last.args.frame.isKeyFrame
    /\ last.args.changed
    /\ m_keyFrameArrived

\* C3 as stated: every non-key frame delivered before the first key frame
\* has arrived makes no send and exactly one key-frame request.
C3_Original ==
    (IsOnFrame /\ ~last.args.keyFrameArrived /\ ~last.args.frame.isKeyFrame) =>
        /\ Sends(last.calls) = <<>>
        /\ last.calls = << KeyFrameRequest >>

\* C3: every non-key frame delivered while the packetizer is enabled and
\* before the first key frame has arrived makes no send and exactly one
\* key-frame request, and leaves the gate closed.
C3_GatedFrameRequestsKeyFrame ==
    (IsOnFrame /\ last.args.enabled /\ ~last.args.keyFrameArrived
       /\ ~last.args.frame.isKeyFrame) =>
        /\ Sends(last.calls) = <<>>
        /\ last.calls = << KeyFrameRequest >>
        /\ ~m_keyFrameArrived
        /\ sendCalls = 0

C3_Witness ==
    /\ IsOnFrame
    /\ last.args.enabled
    /\ ~last.args.keyFrameArrived
    /\ ~last.args.frame.isKeyFrame
    /\ Len(KeyFrameRequests(last.calls)) = 1

\* C4 as stated: a frame whose NAL scan fails is dropped, no
\* SendOutgoingData call is made for it.
C4_ScanFailureDropsFrame ==
    (IsOnFrame /\ last.args.frame.format \in {"H264", "H265"}
       /\ NALScan(last.args.frame.payload).failed) =>
        Sends(last.calls) = <<>>

\* C5 as stated: setSendCodec with a format other than the cached one
\* returns false and makes no call on the bitrate controller or the RTP
\* engine.
C5_MismatchRejected ==
    (last.op = "setSendCodec"
       /\ last.args.frameFormat # last.args.cachedFormat) =>
        /\ last.ret = "false"
        /\ last.calls = <<>>

BitratePushes(calls) ==
    {i \in DOMAIN calls : calls[i].fn = "SetStartBitrate"}

\* C6 as stated: max == 2 * target and min == target / 4 for the bounds
\* pushed in bps.
C6_Original ==
    \A i \in BitratePushes(last.calls) :
        /\ last.calls[i + 1].fn = "SetMinMaxBitrate"
        /\ last.calls[i + 1].max = 2 * last.calls[i].bps
        /\ last.calls[i + 1].min = last.calls[i].bps \div 4

\* C6: the bounds are pushed in bps as whole kbps; max == 2 * target and
\* min is a quarter of the target taken in whole kbps, rounded down:
\* min == 1000 * ((target / 1000) / 4).
C6_BitrateBounds ==
    \A i \in BitratePushes(last.calls) :
        /\ last.calls[i + 1].fn = "SetMinMaxBitrate"
        /\ last.calls[i].bps % 1000 = 0
        /\ last.calls[i + 1].max = 2 * last.calls[i].bps
        /\ last.calls[i + 1].min = 1000 * ((last.calls[i].bps \div 1000) \div 4)

\* bounds have been pushed for VP8 with a target that is no multiple of 4 kbps
C6_Witness ==
    /\ BitratePushes(last.calls) # {}
    /\ \E i \in BitratePushes(last.calls) :
          /\ (last.calls[i].bps \div 1000) % 4 # 0
          /\ last.calls[i + 2].codec.plName = "VP8"

\* C7: for a buffer made of N NAL units behind 3- or 4-byte start codes,
\* the fragmentation map onFrame hands to the RTP engine has exactly N
\* entries, in order, each the offset (from the start of the payload, past
\* the start code) and the length of its unit, all within the buffer.
C7_FragmentationMap ==
    \A i \in DOMAIN last.calls :
        last.calls[i].fn = "SendOutgoingData" =>
            /\ last.calls[i].payload = scanBuf
            /\ last.calls[i].frag.present
            /\ last.calls[i].frag.vec = UnitExtents(scanUnits)
            /\ Len(last.calls[i].frag.vec) = Len(scanUnits)
            /\ \A k \in DOMAIN last.calls[i].frag.vec :
                  LET f == last.calls[i].frag.vec[k]
                  IN  /\ 0 <= f.offset
                      /\ f.offset + f.length <= last.calls[i].length
                      /\ SubSeq(scanBuf, f.offset + 1, f.offset + f.length)
                           = scanUnits[k].body

\* a frame of three units has been sent: a 4-byte start code, an empty
\* unit and a unit with a zero byte inside
C7_Witness ==
    /\ IsOnFrame
    /\ Len(Sends(last.calls)) = 1
    /\ Len(scanUnits) = 3
    /\ scanUnits[1].sc = 4
    /\ scanUnits[2].body = <<>>
    /\ scanUnits[3].body = <<65, 0, 1>>
    /\ scanUnits[3].sc = 4

\* C9 as stated: the only sink whose feedback source is wired to this
\* packetizer is the bound one, and none is after unbindTransport.
C9_OnlyBoundSinkWired ==
    /\ feedbackSinkOf \subseteq {videoSink_}
    /\ Cardinality(feedbackSinkOf) <= 1

\* C10: unbindTransport on an unbound packetizer makes no call and changes
\* nothing; bindTransport on an unbound packetizer binds the sink, hands it
\* the SSRC exactly once and wires its feedback source, if it has one,
\* exactly once.
C10_UnbindIdempotentRebindClean ==
    [][ /\ (last'.op = "unbindTransport" /\ videoSink_ = NoSink) =>
              /\ last'.calls = <<>>
              /\ UNCHANGED <<aborted, m_enabled, m_keyFrameArrived, codecVars,
                             bindingVars, counterVars>>
        /\ (last'.op = "bindTransport" /\ videoSink_ = NoSink) =>
              LET sink == last'.args.sink
                  onSink == SelectSeq(last'.calls, LAMBDA c : c.sink = sink)
                  wired == IF sink \in SinksWithFeedbackSource THEN 1 ELSE 0
              IN  /\ onSink = last'.calls
                  /\ CountCalls(last'.calls, "setVideoSinkSSRC") = 1
                  /\ CountCalls(last'.calls, "setFeedbackSink") = wired
                  /\ \A i \in DOMAIN last'.calls :
                        last'.calls[i].fn = "setFeedbackSink" =>
                            last'.calls[i].to = "this"
                  /\ videoSink_' = sink
                  /\ feedbackSinkOf' =
                        feedbackSinkOf \cup ({sink} \cap SinksWithFeedbackSource)
      ]_vars

\* a sink with a feedback source has been bound to an unbound packetizer
C10_Witness ==
    /\ last.op = "bindTransport"
    /\ last.args.previous = NoSink
    /\ last.args.sink = "sinkA"
    /\ videoSink_ = "sinkA"
    /\ feedbackSinkOf = {"sinkA"}
    /\ Len(last.calls) = 2


\* C8 as stated: no call that is in flight when the destructor is entered
\* calls the RTP engine after the engine has been torn down.
C8_NoUseAfterTeardown == usedAfterTeardown = {}

\* the calls of a payload registration: the bitrate pushes and the
\* RegisterSendPayload call
RegistrationCalls(calls) ==
    SelectSeq(calls, LAMBDA c : c.fn \in {"SetStartBitrate", "SetMinMaxBitrate",
                                          "RegisterSendPayload"})

\* the registration onFrame makes for a frame: one push of the bounds
\* computed for the frame's format and resolution, one RegisterSendPayload
\* for the frame's codec
OneRegistrationFor(calls, f) ==
    LET reg == RegistrationCalls(calls)
    IN  /\ Len(reg) = 3
        /\ reg[1].fn = "SetStartBitrate"
        /\ reg[1].bps = 1000 * TargetKbps(f.format, f.width, f.height)
        /\ reg[2].fn = "SetMinMaxBitrate"
        /\ reg[2].max = TRANSMISSION_MAXBITRATE_MULTIPLIER * reg[1].bps
        /\ reg[3].fn = "RegisterSendPayload"
        /\ reg[3].codec.plName = f.format

\* the frame of the step differs from the CodecState cached before the step
DiffersFromCache(f) ==
    \/ f.format # m_frameFormat
    \/ f.width # m_frameWidth
    \/ f.height # m_frameHeight

\* C11 as stated: while Streaming, every frame that differs from the cached
\* CodecState triggers exactly one registration with newly computed bitrate
\* bounds, a frame that equals it triggers none, and the gate stays open.
C11_Original ==
    [][ (last'.op = "onFrame" /\ m_enabled /\ m_keyFrameArrived) =>
            LET f == last'.args.frame
            IN  /\ m_keyFrameArrived'
                /\ DiffersFromCache(f) => OneRegistrationFor(last'.calls, f)
                /\ ~DiffersFromCache(f) => RegistrationCalls(last'.calls) = <<>>
      ]_vars

\* C11: while Streaming, a frame of a supported format that differs from the
\* cached CodecState triggers exactly one registration with the bounds
\* computed for the new format and resolution; a differing frame of an
\* unsupported format and a frame that equals the cached CodecState trigger
\* no bitrate push and no registration; the gate stays open and the cache
\* holds the frame's format and resolution.
C11_ChangeReregistersOnce ==
    [][ (last'.op = "onFrame" /\ m_enabled /\ m_keyFrameArrived) =>
            LET f == last'.args.frame
            IN  /\ m_keyFrameArrived'
                /\ (DiffersFromCache(f) /\ f.format \in SupportedFormats) =>
                      OneRegistrationFor(last'.calls, f)
                /\ (DiffersFromCache(f) /\ f.format \notin SupportedFormats) =>
                      RegistrationCalls(last'.calls) = <<>>
                /\ ~DiffersFromCache(f) => RegistrationCalls(last'.calls) = <<>>
                /\ <<m_frameFormat', m_frameWidth', m_frameHeight'>>
                      = <<f.format, f.width, f.height>>
      ]_vars

\* a VP8 key frame of another resolution has been re-registered while
\* Streaming
C11_Witness ==
    /\ IsOnFrame
    /\ last.args.enabled
    /\ last.args.keyFrameArrived
    /\ last.args.changed
    /\ last.args.frame.format = "VP8"
    /\ last.args.frame.isKeyFrame
    /\ sendCalls = 2
    /\ Len(RegistrationCalls(last.calls)) = 3
    /\ m_frameWidth = 640

\* thread t holds mutex m, as its writer or as one of its readers
Holds(m, t) == m.writer = t \/ t \in m.readers

\* thread t stands at the acquisition of the RTP-engine lock
WaitsForRtpRtcpMutex(t) == pc[t] \in {"register_lock", "send_lock", "dtor_lock"}

\* thread t is between two calls, where every acquisition of the
\* sink-binding lock starts
BetweenCalls(t) == pc[t] \in {"idle", "destroyed"}

C13_DisabledOnFrameIsNoOp ==
    [][ (last'.op = "onFrame" /\ ~m_enabled) =>
            /\ last'.calls = <<>>
            /\ UNCHANGED <<aborted, m_enabled, m_keyFrameArrived, codecVars,
                           bindingVars, counterVars>>
      ]_vars

\* a key frame of another format or resolution has been delivered to a
\* Streaming packetizer after enable(false)
C13_Witness ==
    /\ IsOnFrame
    /\ ~last.args.enabled
    /\ ~m_enabled
    /\ last.args.frame.isKeyFrame
    /\ last.args.changed
    /\ last.args.keyFrameArrived
    /\ sendCalls = 1

\* C14: every call of enable(true), sendFirPacket and
\* OnReceivedIntraFrameRequest emits exactly one REQUEST_KEY_FRAME feedback
\* event and nothing else, whatever the enablement, the gate and the binding
\* are; enable(false) emits nothing; none of them changes m_keyFrameArrived
\* or the cached format, width and height.
C14_KeyFrameRequestPerCall ==
    [][ /\ (\/ last'.op \in {"sendFirPacket", "OnReceivedIntraFrameRequest"}
            \/ (last'.op = "enable" /\ last'.args.enabled)) =>
              /\ last'.calls = << KeyFrameRequest >>
              /\ UNCHANGED <<m_keyFrameArrived, codecVars>>
        /\ (last'.op = "enable" /\ ~last'.args.enabled) =>
              /\ last'.calls = <<>>
              /\ UNCHANGED <<m_keyFrameArrived, codecVars>>
        /\ last'.op = "enable" => m_enabled' = last'.args.enabled
      ]_vars

\* enable(true) has requested a key frame on a packetizer that is Streaming
\* and has no sink bound
C14_Witness ==
    /\ last.op = "enable"
    /\ last.args.enabled
    /\ last.calls = << KeyFrameRequest >>
    /\ m_keyFrameArrived
    /\ videoSink_ = NoSink

\* the network thread has returned from a receiveRtpData call
ReceiveRtpDataReturned ==
    pc["network"] = "idle" /\ "deliveries" \in DOMAIN cur["network"]

\* C15: receiveRtpData calls deliverVideoData exactly once, on the bound
\* sink, when a sink is bound, and not at all when none is; the sink it
\* calls is bound at the time of the call, so that no sink is called once
\* the unbindTransport or close that unbound it has returned: from the
\* check of videoSink_ to the call no other thread holds the sink-binding
\* lock as a writer and the binding does not change.
C15_DeliversToBoundSinkOnly ==
    /\ ReceiveRtpDataReturned =>
          LET c == cur["network"]
          IN  /\ c.checked = NoSink => c.deliveries = 0
              /\ c.checked # NoSink =>
                    /\ c.deliveries = 1
                    /\ c.deliveredTo = c.checked
    /\ pc["network"] = "deliver" =>
          /\ videoSink_ = cur["network"].checked
          /\ videoSink_ # NoSink
          /\ m_transport_mutex.writer = "none"

\* the data went to sinkB while it was bound, and sinkB has been unbound
\* since
C15_Witness ==
    /\ ReceiveRtpDataReturned
    /\ cur["network"].deliveredTo = "sinkB"
    /\ cur["network"].deliveries = 1
    /\ videoSink_ = NoSink
    /\ pc["owner"] = "idle"

\* C16 as stated: setSendCodec returns false for I420 and every other
\* unsupported format, pushing no bitrate bounds and registering no payload;
\* for a supported format it pushes the bounds, asks the engine to register
\* the payload and returns the engine's answer.
C16_UnsupportedFormatRejected ==
    last.op = "setSendCodec" =>
        IF last.args.frameFormat \notin SupportedFormats
        THEN /\ last.ret = "false"
             /\ last.calls = <<>>
        ELSE /\ last.ret = (IF last.args.regOk THEN "true" ELSE "false")
             /\ CountCalls(last.calls, "RegisterSendPayload") = 1
             /\ CountCalls(last.calls, "SetStartBitrate") = 1
             /\ CountCalls(last.calls, "SetMinMaxBitrate") = 1

\* C17: OnNetworkChanged makes no call on any collaborator (no feedback
\* event, no send, no bitrate push) and leaves the enablement, the gate, the
\* cached format and resolution, and the binding as they were.
C17_NetworkChangeInert ==
    [][ last'.op = "OnNetworkChanged" =>
            /\ last'.calls = <<>>
            /\ UNCHANGED <<aborted, m_enabled, m_keyFrameArrived, codecVars,
                           bindingVars, counterVars>>
      ]_vars

\* a change to 300 kbps has been notified to a Streaming, bound packetizer
C17_Witness ==
    /\ last.op = "OnNetworkChanged"
    /\ last.args.target_bitrate = 300000
    /\ last.args.fraction_loss = 105
    /\ m_keyFrameArrived
    /\ m_enabled
    /\ videoSink_ = "sinkA"

\* C18: every frame onFrame accepts (enabled, gate open or opened by the
\* frame) of format VP8, VP9, H264 or H265 makes exactly one
\* SendOutgoingData call with the frame's payload, length and timestamp,
\* the capture time timestamp / 90 and the payload type of the frame's
\* format, with no fragmentation map for VP8 and VP9 and with the map of
\* the NAL scan for H264 and H265; an accepted frame of another format
\* makes no send call.
C18_AcceptedFrameSentOnce ==
    (IsOnFrame /\ last.args.enabled
       /\ (last.args.keyFrameArrived \/ last.args.frame.isKeyFrame)) =>
        LET f == last.args.frame
            sends == Sends(last.calls)
        IN  IF f.format \in {"VP8", "VP9", "H264", "H265"}
            THEN /\ Len(sends) = 1
                 /\ sends[1].payload = f.payload
                 /\ sends[1].length = Len(f.payload)
                 /\ sends[1].timeStamp = f.timeStamp
                 /\ 90 * sends[1].captureTime <= f.timeStamp
                 /\ f.timeStamp < 90 * (sends[1].captureTime + 1)
                 /\ sends[1].plType = f.format \o "_90000_PT"
                 /\ f.format \in {"VP8", "VP9"} => ~sends[1].frag.present
                 /\ f.format \in {"H264", "H265"} =>
                       /\ sends[1].frag.present
                       /\ sends[1].frag.vec = NALScan(f.payload).vec
                       /\ f.payload = WellFormedPayload =>
                             sends[1].frag.vec =
                                 << [offset |-> 4, length |-> 1],
                                    [offset |-> 8, length |-> 1] >>
            ELSE sends = <<>>

\* the scenario of the specification: an H264 key frame of two NAL units
\* opens the gate and is sent with a map of two entries
C18_Witness ==
    /\ IsOnFrame
    /\ last.args.enabled
    /\ ~last.args.keyFrameArrived
    /\ last.args.frame.format = "H264"
    /\ last.args.frame.isKeyFrame
    /\ last.args.frame.payload = WellFormedPayload
    /\ last.args.frame.timeStamp = 180
    /\ Len(Sends(last.calls)) = 1
    /\ Len(Sends(last.calls)[1].frag.vec) = 2
    /\ Sends(last.calls)[1].captureTime = 2

\* C19 as stated: the earliest SendOutgoingData call of an instance is made
\* for a key frame.
C19_FirstSentFrameIsKeyFrame ==
    (IsOnFrame /\ Sends(last.calls) # <<>>
       /\ sendCalls = Len(Sends(last.calls))) =>
        last.args.frame.isKeyFrame

\* C20: a rejected payload registration is contained.  When the
\* registration a change triggers in onFrame fails, the process goes on,
\* the gate is open as the frame leaves it and never re-closes, the cache
\* holds the frame's format, width and height, and the frame is dispatched
\* once; every later frame of the cached format and resolution is
\* dispatched once with no bitrate push and no registration.
C20_RejectionContained ==
    [][ /\ (last'.op = "onFrame" /\ ~last'.args.regOk) =>
              LET f == last'.args.frame
                  reg == CallsNamed(last'.calls, "RegisterSendPayload")
              IN  /\ Len(reg) = 1
                  /\ ~reg[1].ok
                  /\ ~aborted'
                  /\ m_keyFrameArrived'
                  /\ m_keyFrameArrived' = (m_keyFrameArrived \/ f.isKeyFrame)
                  /\ <<m_frameFormat', m_frameWidth', m_frameHeight'>>
                        = <<f.format, f.width, f.height>>
                  /\ Len(Sends(last'.calls)) = 1
                  /\ Sends(last'.calls)[1].payload = f.payload
        /\ (last'.op = "onFrame" /\ m_enabled /\ m_keyFrameArrived
              /\ last'.args.frame.format \in SupportedFormats
              /\ ~DiffersFromCache(last'.args.frame)) =>
              /\ RegistrationCalls(last'.calls) = <<>>
              /\ Len(Sends(last'.calls)) = 1
      ]_vars

\* the registration for a key frame that opens the gate has been rejected
\* and the frame has been dispatched
C20_Witness ==
    /\ IsOnFrame
    /\ ~last.args.regOk
    /\ ~last.args.keyFrameArrived
    /\ last.args.frame.isKeyFrame
    /\ m_keyFrameArrived
    /\ m_frameFormat = last.args.frame.format
    /\ m_frameWidth = last.args.frame.width
    /\ Len(Sends(last.calls)) = 1
    /\ sendCalls = 1


====
